---- MODULE Spec2Model ----
(***************************************************************************)
(* State-machine model of src/python-sandbox2.py: the PhysicsSandbox       *)
(* controller (mode switching, buttons, sliders, the four modes' click and *)
(* motion handlers) and the two module-level hit-test functions            *)
(* point_in_shape / point_in_polygon.                                      *)
(*                                                                         *)
(* Real-valued quantities (slider values, friction, volts, ohms, degrees)  *)
(* are kept exactly, as integers counting units of 1/Unit, Unit being ten  *)
(* times the slider width: every value the code computes from an integer   *)
(* pointer position and the one-decimal constants of the source is a whole *)
(* number of such units.                                                   *)
(***************************************************************************)
EXTENDS Integers, Sequences, FiniteSets, TLC

\* ------------------------------------------------------------- bounds
\* Longest mechanics object list, component list, obstacle list and
\* heat-source list the add operations are allowed to build.
MaxEntities == 2
\* The same, and the number of emit and heat clicks, in a session across modes.
SessionCap == 1
\* Number of emit clicks (batches of EmitCount particles) allowed.
MaxEmits == 2
\* Number of thermal clicks allowed to inject heat.
MaxHeatClicks == 2
\* Most events one drain of the event queue returns.
MaxBatch == 2
\* Side of the integer grid the polygon vertices and test points are drawn from.
GridMax == 2

\* ---------------------------------------------------- program constants
WIDTH == 1000
HEIGHT == 700
GRAVITY == 981
SliderW == 150
EmitCount == 5
Jitter == 10
HeatStep == 10
CircleRadius == 20
BoxSide == 40
HeatRadius == 30
\* What a reference field (an object, a component, a button) holds while it is None.
NoRef == 0

Unit == 10 * SliderW
\* n tenths, in units of 1/Unit
Tenths(n) == n * SliderW
\* n hundredths, in units of 1/Unit
Hundredths(n) == n * (SliderW \div 10)
Whole(n) == n * Unit

Modes == {"MECHANICS", "ELECTRICITY", "FLUID", "THERMAL"}
\* Mode.name.lower()
Lower(m) ==
    CASE m = "MECHANICS" -> "mechanics"
      [] m = "ELECTRICITY" -> "electricity"
      [] m = "FLUID" -> "fluid"
      [] m = "THERMAL" -> "thermal"

None == "None"

\* MATERIALS: name -> Material(density, friction, elasticity, conductivity)
MATERIALS ==
    [n \in {"Wood", "Metal", "Ice", "Rubber"} |->
        CASE n = "Wood" ->
               [density |-> Tenths(5), friction |-> Tenths(7),
                elasticity |-> Tenths(4), thermal_conductivity |-> Tenths(2),
                temperature |-> Whole(20)]
          [] n = "Metal" ->
               [density |-> Tenths(10), friction |-> Tenths(4),
                elasticity |-> Tenths(5), thermal_conductivity |-> Tenths(9),
                temperature |-> Whole(20)]
          [] n = "Ice" ->
               [density |-> Tenths(9), friction |-> Tenths(1),
                elasticity |-> Tenths(9), thermal_conductivity |-> Tenths(5),
                temperature |-> Whole(20)]
          [] n = "Rubber" ->
               [density |-> Tenths(7), friction |-> Tenths(9),
                elasticity |-> Tenths(9), thermal_conductivity |-> Tenths(1),
                temperature |-> Whole(20)]]

MaterialNames == DOMAIN MATERIALS

\* ------------------------------------------------------------ geometry
Rect(x, y, w, h) == [x |-> x, y |-> y, w |-> w, h |-> h]

\* pygame.Rect.collidepoint: left/top edges inside, right/bottom edges outside
collidepoint(r, p) ==
    /\ r.x <= p[1] /\ p[1] < r.x + r.w
    /\ r.y <= p[2] /\ p[2] < r.y + r.h

\* Index of the first element of seq satisfying Test, 0 when there is none.
FirstIndex(seq, Test(_)) ==
    IF \E i \in 1..Len(seq) : Test(seq[i])
    THEN CHOOSE i \in 1..Len(seq) :
            Test(seq[i]) /\ \A j \in 1..(i - 1) : ~Test(seq[j])
    ELSE 0

IsPrefix(a, b) == Len(a) <= Len(b) /\ \A i \in 1..Len(a) : b[i] = a[i]

\* ------------------------------------------------------------ controls
ModeButton(y, text, m) ==
    [rect |-> Rect(20, y, 150, 40), text |-> text,
     action |-> [fn |-> "set_mode", arg |-> m]]

MaterialButton(y, name) ==
    [rect |-> Rect(20, y, 150, 30), text |-> name,
     action |-> [fn |-> "set_material", arg |-> name], category |-> "material"]

ActionButton(y, text, fn, arg, cat) ==
    [rect |-> Rect(20, y, 150, 40), text |-> text,
     action |-> [fn |-> fn, arg |-> arg], category |-> cat]

\* create_buttons, in list order
Buttons ==
    << ModeButton(20, "Mechanics Mode", "MECHANICS"),
       ModeButton(70, "Electricity Mode", "ELECTRICITY"),
       ModeButton(120, "Fluid Mode", "FLUID"),
       ModeButton(170, "Thermal Mode", "THERMAL"),
       MaterialButton(250, "Wood"),
       MaterialButton(290, "Metal"),
       MaterialButton(330, "Ice"),
       MaterialButton(370, "Rubber"),
       ActionButton(450, "Add Circle", "add_circle", None, "mechanics"),
       ActionButton(500, "Add Box", "add_box", None, "mechanics"),
       ActionButton(550, "Add Pendulum", "add_pendulum", None, "mechanics"),
       ActionButton(600, "Add Spring", "add_spring", None, "mechanics"),
       ActionButton(450, "Add Battery", "add_component", "BATTERY", "electricity"),
       ActionButton(500, "Add Resistor", "add_component", "RESISTOR", "electricity"),
       ActionButton(550, "Add Bulb", "add_component", "BULB", "electricity"),
       ActionButton(600, "Add Switch", "add_component", "SWITCH", "electricity"),
       ActionButton(450, "Add Water", "set_fluid", "Water", "fluid"),
       ActionButton(500, "Add Oil", "set_fluid", "Oil", "fluid"),
       ActionButton(550, "Add Obstacle", "add_obstacle", None, "fluid"),
       ActionButton(600, "Add Floating Object", "add_floating_object", None, "fluid"),
       ActionButton(450, "Add Heat Source", "add_heat_source", None, "thermal"),
       ActionButton(500, "Add Metal Rod", "add_thermal_conductor", None, "thermal"),
       ActionButton(550, "Add Insulator", "add_thermal_insulator", None, "thermal") >>

SliderDef(y, text, lo, hi, init, fn, cat) ==
    [rect |-> Rect(190, y, SliderW, 20), text |-> text,
     min_value |-> lo, max_value |-> hi, init |-> init,
     action |-> fn, category |-> cat]

\* create_sliders, in list order; min, max and initial value in units of 1/Unit
Sliders ==
    << SliderDef(20, "Gravity", Whole(0), Whole(2000), Whole(GRAVITY),
                 "set_gravity", "mechanics"),
       SliderDef(60, "Friction", Whole(0), Whole(1), Tenths(5),
                 "set_friction", "mechanics"),
       SliderDef(20, "Voltage", Whole(0), Whole(24), Whole(9),
                 "set_voltage", "electricity"),
       SliderDef(60, "Resistance", Whole(10), Whole(1000), Whole(100),
                 "set_resistance", "electricity"),
       SliderDef(20, "Viscosity", Tenths(1), Whole(10), Whole(1),
                 "set_viscosity", "fluid"),
       SliderDef(60, "Flow Rate", Whole(1), Whole(50), Whole(10),
                 "set_flow_rate", "fluid"),
       SliderDef(20, "Temperature", Whole(-20), Whole(500), Whole(100),
                 "set_temperature", "thermal"),
       SliderDef(60, "Conductivity", Tenths(1), Whole(1), Tenths(5),
                 "set_conductivity", "thermal") >>


\* --------------------------------------------------------------- state
VARIABLES
    mode,                \* self.mode
    status,              \* "running", "exited" (sys.exit) or "error" (uncaught exception)
    error,               \* the uncaught exception's type, None while there is none
    space,               \* self.space: gravity and the boundary walls' friction
    objects,             \* self.objects
    selected_object,     \* id of the object self.selected_object refers to, or NoRef
    selected_material,   \* self.selected_material
    applying_force,      \* self.applying_force
    force_start_pos,     \* self.force_start_pos (<< >> until first assigned)
    force_direction,     \* self.force_direction (<< >> while None)
    pendulum,            \* id of the bob self.pendulum refers to, or NoRef
    spring,              \* id of the weight self.spring refers to, or NoRef
    components,          \* self.components
    wires,               \* self.wires
    selected_component,  \* id of the component self.selected_component refers to, or NoRef
    dragging_component,  \* self.dragging_component
    circuit_solved,      \* self.circuit_solved
    voltages,            \* self.voltages (dict: set of <<key, value>> items)
    currents,            \* self.currents
    particles,           \* self.particles
    obstacles,           \* self.obstacles
    selected_fluid,      \* self.selected_fluid
    heat_sources,        \* self.heat_sources
    temperature_map,     \* self.temperature_map (a uniform grid: shape and fill value)
    slider_value,        \* slider["value"] of each slider, by list index
    selected_button,     \* list index of self.selected_button, or NoRef
    calls,               \* the method calls the last handled event made, in order
    heat_clicks,         \* number of heat-injecting clicks so far (bounds the run)
    pip                  \* the hit-test call under examination: inputs and result

vars ==
    << mode, status, error, space, objects, selected_object, selected_material,
       applying_force, force_start_pos, force_direction, pendulum, spring,
       components, wires, selected_component, dragging_component,
       circuit_solved, voltages, currents, particles, obstacles,
       selected_fluid, heat_sources, temperature_map, slider_value,
       selected_button, calls, heat_clicks, pip >>

\* The sandbox object's fields as one record, on which the methods operate.
St ==
    [mode |-> mode, status |-> status, error |-> error, space |-> space,
     objects |-> objects, selected_object |-> selected_object,
     selected_material |-> selected_material,
     applying_force |-> applying_force, force_start_pos |-> force_start_pos,
     force_direction |-> force_direction, pendulum |-> pendulum,
     spring |-> spring, components |-> components, wires |-> wires,
     selected_component |-> selected_component,
     dragging_component |-> dragging_component,
     circuit_solved |-> circuit_solved, voltages |-> voltages,
     currents |-> currents, particles |-> particles, obstacles |-> obstacles,
     selected_fluid |-> selected_fluid, heat_sources |-> heat_sources,
     temperature_map |-> temperature_map, slider_value |-> slider_value,
     selected_button |-> selected_button, calls |-> calls,
     heat_clicks |-> heat_clicks]

\* The next state is the record t.
Becomes(t) ==
    /\ mode' = t.mode /\ status' = t.status /\ error' = t.error
    /\ space' = t.space /\ objects' = t.objects
    /\ selected_object' = t.selected_object
    /\ selected_material' = t.selected_material
    /\ applying_force' = t.applying_force
    /\ force_start_pos' = t.force_start_pos
    /\ force_direction' = t.force_direction
    /\ pendulum' = t.pendulum /\ spring' = t.spring
    /\ components' = t.components /\ wires' = t.wires
    /\ selected_component' = t.selected_component
    /\ dragging_component' = t.dragging_component
    /\ circuit_solved' = t.circuit_solved
    /\ voltages' = t.voltages /\ currents' = t.currents
    /\ particles' = t.particles /\ obstacles' = t.obstacles
    /\ selected_fluid' = t.selected_fluid
    /\ heat_sources' = t.heat_sources
    /\ temperature_map' = t.temperature_map
    /\ slider_value' = t.slider_value
    /\ selected_button' = t.selected_button
    /\ calls' = t.calls /\ heat_clicks' = t.heat_clicks

\* The object's fields are those of the record t.
Is(t) ==
    /\ mode = t.mode /\ status = t.status /\ error = t.error
    /\ space = t.space /\ objects = t.objects
    /\ selected_object = t.selected_object
    /\ selected_material = t.selected_material
    /\ applying_force = t.applying_force
    /\ force_start_pos = t.force_start_pos
    /\ force_direction = t.force_direction
    /\ pendulum = t.pendulum /\ spring = t.spring
    /\ components = t.components /\ wires = t.wires
    /\ selected_component = t.selected_component
    /\ dragging_component = t.dragging_component
    /\ circuit_solved = t.circuit_solved
    /\ voltages = t.voltages /\ currents = t.currents
    /\ particles = t.particles /\ obstacles = t.obstacles
    /\ selected_fluid = t.selected_fluid
    /\ heat_sources = t.heat_sources
    /\ temperature_map = t.temperature_map
    /\ slider_value = t.slider_value
    /\ selected_button = t.selected_button
    /\ calls = t.calls /\ heat_clicks = t.heat_clicks

\* create_boundaries: floor and two walls, friction 0.5 each, in a fresh space
create_boundaries == [gravity |-> Whole(GRAVITY), wall_friction |-> Tenths(5)]

AmbientMap == [w |-> WIDTH \div 10, h |-> HEIGHT \div 10, fill |-> Whole(20)]

\* PhysicsSandbox.__init__
InitState ==
    [mode |-> "MECHANICS", status |-> "running", error |-> None,
     space |-> create_boundaries,
     objects |-> << >>, selected_object |-> NoRef,
     selected_material |-> "Wood", applying_force |-> FALSE,
     force_start_pos |-> << >>, force_direction |-> << >>,
     pendulum |-> NoRef, spring |-> NoRef,
     components |-> << >>, wires |-> << >>, selected_component |-> NoRef,
     dragging_component |-> FALSE, circuit_solved |-> FALSE,
     voltages |-> {}, currents |-> {},
     particles |-> << >>, obstacles |-> << >>, selected_fluid |-> "Water",
     heat_sources |-> << >>, temperature_map |-> AmbientMap,
     slider_value |-> [i \in 1..Len(Sliders) |-> Sliders[i].init],
     selected_button |-> NoRef, calls |-> << >>, heat_clicks |-> 0]

\* Record that method fn was called with argument arg (None when it takes none);
\* for pygame.mouse.get_pos and get_pressed, arg is the value read.
Called(s, fn, arg) == [s EXCEPT !.calls = Append(@, [fn |-> fn, arg |-> arg])]

\* An exception that nothing catches ends the program.
Raise(s, exc) == [s EXCEPT !.status = "error", !.error = exc]

\* A fresh identity: the least id no live reference holds.
NewId(used) == CHOOSE i \in 1..(Cardinality(used) + 1) :
                  i \notin used /\ \A j \in 1..(i - 1) : j \in used

ObjectIds(s) ==
    {s.objects[i].id : i \in 1..Len(s.objects)}
        \cup ({s.selected_object, s.pendulum, s.spring} \ {NoRef})

ComponentIds(s) ==
    {s.components[i].id : i \in 1..Len(s.components)}
        \cup ({s.selected_component} \ {NoRef})

\* ------------------------------------------------------ mode switching

\* set_mode with the thermal branch clearing the fluid lists as well.
set_mode_clearing_fluid(s0, m) ==
    LET s == [Called(s0, "set_mode", m) EXCEPT !.mode = m] IN
    CASE m = "MECHANICS" ->
           [s EXCEPT !.space = create_boundaries, !.objects = << >>]
      [] m = "ELECTRICITY" ->
           [s EXCEPT !.components = << >>, !.wires = << >>,
                     !.circuit_solved = FALSE]
      [] m = "FLUID" ->
           [s EXCEPT !.particles = << >>, !.obstacles = << >>]
      [] m = "THERMAL" ->
           [s EXCEPT !.heat_sources = << >>, !.temperature_map = AmbientMap,
                     !.particles = << >>, !.obstacles = << >>]

set_mode(s0, m) ==
    LET s == [Called(s0, "set_mode", m) EXCEPT !.mode = m] IN
    CASE m = "MECHANICS" ->
           [s EXCEPT !.space = create_boundaries, !.objects = << >>]
      [] m = "ELECTRICITY" ->
           [s EXCEPT !.components = << >>, !.wires = << >>,
                     !.circuit_solved = FALSE]
      [] m = "FLUID" ->
           [s EXCEPT !.particles = << >>, !.obstacles = << >>]
      [] m = "THERMAL" ->
           [s EXCEPT !.heat_sources = << >>, !.temperature_map = AmbientMap]

set_material(s, material) ==
    [Called(s, "set_material", material) EXCEPT !.selected_material = material]

set_fluid(s, fluid) ==
    [Called(s, "set_fluid", fluid) EXCEPT !.selected_fluid = fluid]


\* ------------------------------------------------------------ mechanics
SpawnPoint == << WIDTH \div 2, HEIGHT \div 3 >>
HangPoint == << WIDTH \div 2, 250 >>

\* pymunk.Circle(body, radius)
Circle(radius) == [kind |-> "Circle", radius |-> radius]

\* pymunk.Poly.create_box(body, size)
Box(side) == [kind |-> "Poly", size |-> << side, side >>]

\* The tracked entry {"body", "shape", "type", "material"} of a new body.
NewObject(s, type, shape, position) ==
    LET material == MATERIALS[s.selected_material] IN
    [id |-> NewId(ObjectIds(s)), type |-> type, shape |-> shape,
     material |-> s.selected_material, friction |-> material.friction,
     elasticity |-> material.elasticity, position |-> position,
     velocity |-> << 0, 0 >>]

add_circle(s0) ==
    LET s == Called(s0, "add_circle", None) IN
    [s EXCEPT !.objects = Append(@, NewObject(s, "circle", Circle(CircleRadius), SpawnPoint))]

add_box(s0) ==
    LET s == Called(s0, "add_box", None) IN
    [s EXCEPT !.objects = Append(@, NewObject(s, "box", Box(BoxSide), SpawnPoint))]

add_pendulum(s0) ==
    LET s == Called(s0, "add_pendulum", None)
        bob == NewObject(s, "pendulum_bob", Circle(CircleRadius), HangPoint)
    IN  [s EXCEPT !.pendulum = bob.id, !.objects = Append(@, bob)]

add_spring(s0) ==
    LET s == Called(s0, "add_spring", None)
        weight == NewObject(s, "spring_weight", Box(BoxSide), HangPoint)
    IN  [s EXCEPT !.spring = weight.id, !.objects = Append(@, weight)]

\* ---------------------------------------------------------- electricity
\* ElectricalComponent.__init__
ElectricalComponent(id, type, position) ==
    [id |-> id, type |-> type, position |-> position, rotation |-> 0,
     on |-> TRUE, charge |-> 0,
     value |-> CASE type = "BATTERY" -> Whole(9)
                 [] type = "RESISTOR" -> Whole(100)
                 [] type = "BULB" -> Whole(50)
                 [] type = "CAPACITOR" -> Hundredths(1)
                 [] OTHER -> 0,
     size |-> CASE type = "BATTERY" -> << 40, 20 >>
                [] type = "RESISTOR" -> << 50, 10 >>
                [] type = "BULB" -> << 20, 20 >>
                [] type = "CAPACITOR" -> << 30, 20 >>
                [] OTHER -> << 50, 20 >>]

add_component(s0, component_type) ==
    LET s == Called(s0, "add_component", component_type)
        component == ElectricalComponent(NewId(ComponentIds(s)), component_type,
                                         << WIDTH \div 2, HEIGHT \div 2 >>)
    IN  [s EXCEPT !.components = Append(@, component),
                  !.selected_component = component.id]

\* ---------------------------------------------------------------- fluid
\* The fluid names Particle.__init__ gives a colour and a density.
FluidDensity ==
    [Water |-> Whole(1), Air |-> Tenths(1), Oil |-> Tenths(8)]

FluidNames == DOMAIN FluidDensity

\* Particle.__init__ (density stays unset for any other name)
Particle(position, material) ==
    [position |-> position, velocity |-> << 0, 0 >>, material |-> material,
     temperature |-> Whole(20),
     density |-> IF material \in FluidNames THEN FluidDensity[material] ELSE None]

add_obstacle(s0) ==
    LET s == Called(s0, "add_obstacle", None) IN
    [s EXCEPT !.obstacles =
        Append(@, [rect |-> Rect(WIDTH \div 2 - 50, HEIGHT \div 2, 100, 20),
                   rotation |-> 0])]


\* add_floating_object naming the selected fluid as the object's material.
add_floating_object_of_fluid(s0) ==
    LET s == Called(s0, "add_floating_object", None)
        material == MATERIALS[s.selected_material]
    IN  [s EXCEPT !.obstacles =
            Append(@, [rect |-> Rect(WIDTH \div 2 - 20, HEIGHT \div 3, 40, 40),
                       velocity |-> << 0, 0 >>,
                       material |-> s.selected_fluid,
                       density |-> material.density,
                       rotation |-> 0, angular_velocity |-> 0])]

add_floating_object(s0) ==
    LET s == Called(s0, "add_floating_object", None)
        material == MATERIALS[s.selected_material]
    IN  [s EXCEPT !.obstacles =
            Append(@, [rect |-> Rect(WIDTH \div 2 - 20, HEIGHT \div 3, 40, 40),
                       velocity |-> << 0, 0 >>,
                       material |-> s.selected_material,
                       density |-> material.density,
                       rotation |-> 0, angular_velocity |-> 0])]

\* -------------------------------------------------------------- thermal
add_heat_source(s0) ==
    LET s == Called(s0, "add_heat_source", None) IN
    [s EXCEPT !.heat_sources =
        Append(@, [position |-> << WIDTH \div 2, HEIGHT \div 2 >>,
                   radius |-> HeatRadius, temperature |-> Whole(200),
                   power |-> Whole(50)])]

LinearElement(material) ==
    [rect |-> Rect(WIDTH \div 2 - 100, HEIGHT \div 2 - 10, 200, 20),
     material |-> material, temperature |-> Whole(20),
     conductivity |-> MATERIALS[material].thermal_conductivity]

add_thermal_conductor(s0) ==
    LET s == Called(s0, "add_thermal_conductor", None) IN
    [s EXCEPT !.heat_sources = Append(@, LinearElement("Metal"))]

add_thermal_insulator(s0) ==
    LET s == Called(s0, "add_thermal_insulator", None) IN
    [s EXCEPT !.heat_sources = Append(@, LinearElement("Wood"))]

\* ------------------------------------------------------- slider setters
set_gravity(s0, value) ==
    [Called(s0, "set_gravity", value) EXCEPT !.space.gravity = value]

\* A variant that also sets the friction of the boundary segments.
set_friction_walls_too(s0, value) ==
    [Called(s0, "set_friction", value) EXCEPT
        !.objects = [i \in 1..Len(@) |-> [@[i] EXCEPT !.friction = value]],
        !.space.wall_friction = value]

set_friction(s0, value) ==
    [Called(s0, "set_friction", value) EXCEPT
        !.objects = [i \in 1..Len(@) |-> [@[i] EXCEPT !.friction = value]]]


\* set_voltage assigning the value to every component, whatever its type.
set_voltage_every_component(s0, value) ==
    [Called(s0, "set_voltage", value) EXCEPT
        !.components = [i \in 1..Len(@) |-> [@[i] EXCEPT !.value = value]]]

set_voltage(s0, value) ==
    [Called(s0, "set_voltage", value) EXCEPT
        !.components = [i \in 1..Len(@) |->
            IF @[i].type = "BATTERY" THEN [@[i] EXCEPT !.value = value] ELSE @[i]]]

set_resistance(s0, value) ==
    [Called(s0, "set_resistance", value) EXCEPT
        !.components = [i \in 1..Len(@) |->
            IF @[i].type = "RESISTOR" THEN [@[i] EXCEPT !.value = value] ELSE @[i]]]

set_viscosity(s0, value) == Called(s0, "set_viscosity", value)

set_flow_rate(s0, value) == Called(s0, "set_flow_rate", value)

set_temperature(s0, value) ==
    [Called(s0, "set_temperature", value) EXCEPT
        !.heat_sources = [i \in 1..Len(@) |-> [@[i] EXCEPT !.temperature = value]]]

set_conductivity(s0, value) ==
    [Called(s0, "set_conductivity", value) EXCEPT
        !.heat_sources = [i \in 1..Len(@) |->
            IF "conductivity" \in DOMAIN @[i]
            THEN [@[i] EXCEPT !.conductivity = value] ELSE @[i]]]


\* ------------------------------------------------------------ hit tests
Min(a, b) == IF a <= b THEN a ELSE b
Max(a, b) == IF a >= b THEN a ELSE b

\* The local variables of point_in_polygon before its loop: inside, xinters
\* (a fraction num/den, den > 0, unbound until first assigned) and, for the
\* record, the edge that last assigned xinters, whether a comparison read a
\* value assigned for another edge, whether a horizontal edge toggled, and
\* the exception raised, if any.
PipStart ==
    [inside |-> FALSE, bound |-> FALSE, num |-> 0, den |-> 1, edge |-> -1,
     stale |-> FALSE, horizontal_toggle |-> FALSE, raised |-> None]

\* xinters = (y - y1) * (x2 - x1) / (y2 - y1) + x1, as an exact fraction
Xinters(y, x1, y1, x2, y2) ==
    LET d == y2 - y1
        n == (y - y1) * (x2 - x1) + x1 * d
    IN  IF d > 0 THEN [num |-> n, den |-> d] ELSE [num |-> -n, den |-> -d]


\* The loop body with the lower end of an edge counted too (y >= min(y1, y2)).
PipEdge_closed(point, vertices, i, st) ==
    LET n == Len(vertices)
        x == point[1]
        y == point[2]
        x1 == vertices[i + 1][1]
        y1 == vertices[i + 1][2]
        x2 == vertices[((i + 1) % n) + 1][1]
        y2 == vertices[((i + 1) % n) + 1][2]
    IN  IF ~(y >= Min(y1, y2) /\ y <= Max(y1, y2) /\ x <= Max(x1, x2))
        THEN st
        ELSE LET st1 == IF y1 # y2
                        THEN IF y2 - y1 = 0
                             THEN [st EXCEPT !.raised = "ZeroDivisionError"]
                             ELSE LET f == Xinters(y, x1, y1, x2, y2) IN
                                  [st EXCEPT !.bound = TRUE, !.num = f.num,
                                             !.den = f.den, !.edge = i]
                        ELSE st
             IN  IF st1.raised # None
                 THEN st1
                 ELSE IF y1 = y2
                 THEN [st1 EXCEPT !.inside = ~@, !.horizontal_toggle = TRUE]
                 ELSE IF ~st1.bound
                 THEN [st1 EXCEPT !.raised = "UnboundLocalError"]
                 ELSE LET st2 == [st1 EXCEPT !.stale = @ \/ st1.edge # i] IN
                      IF x * st2.den <= st2.num
                      THEN [st2 EXCEPT !.inside = ~@]
                      ELSE st2


\* The loop body with the lower end of an edge counted too and the crossing
\* test reduced to x <= xinters (no `y1 == y2 or`).
PipEdge_reading_xinters(point, vertices, i, st) ==
    LET n == Len(vertices)
        x == point[1]
        y == point[2]
        x1 == vertices[i + 1][1]
        y1 == vertices[i + 1][2]
        x2 == vertices[((i + 1) % n) + 1][1]
        y2 == vertices[((i + 1) % n) + 1][2]
    IN  IF ~(y >= Min(y1, y2) /\ y <= Max(y1, y2) /\ x <= Max(x1, x2))
        THEN st
        ELSE LET st1 == IF y1 # y2
                        THEN LET f == Xinters(y, x1, y1, x2, y2) IN
                             [st EXCEPT !.bound = TRUE, !.num = f.num,
                                        !.den = f.den, !.edge = i]
                        ELSE st
             IN  IF ~st1.bound
                 THEN [st1 EXCEPT !.raised = "UnboundLocalError"]
                 ELSE LET st2 == [st1 EXCEPT !.stale = @ \/ st1.edge # i] IN
                      IF x * st2.den <= st2.num
                      THEN [st2 EXCEPT !.inside = ~@]
                      ELSE st2

\* One pass of the loop body of point_in_polygon, for edge i (0-based).
PipEdge(point, vertices, i, st) ==
    LET n == Len(vertices)
        x == point[1]
        y == point[2]
        x1 == vertices[i + 1][1]
        y1 == vertices[i + 1][2]
        x2 == vertices[((i + 1) % n) + 1][1]
        y2 == vertices[((i + 1) % n) + 1][2]
    IN  IF ~(y > Min(y1, y2) /\ y <= Max(y1, y2) /\ x <= Max(x1, x2))
        THEN st
        ELSE LET st1 == IF y1 # y2
                        THEN IF y2 - y1 = 0
                             THEN [st EXCEPT !.raised = "ZeroDivisionError"]
                             ELSE LET f == Xinters(y, x1, y1, x2, y2) IN
                                  [st EXCEPT !.bound = TRUE, !.num = f.num,
                                             !.den = f.den, !.edge = i]
                        ELSE st
             IN  IF st1.raised # None
                 THEN st1
                 ELSE IF y1 = y2
                 THEN [st1 EXCEPT !.inside = ~@, !.horizontal_toggle = TRUE]
                 ELSE IF ~st1.bound
                 THEN [st1 EXCEPT !.raised = "UnboundLocalError"]
                 ELSE LET st2 == [st1 EXCEPT !.stale = @ \/ st1.edge # i] IN
                      IF x * st2.den <= st2.num
                      THEN [st2 EXCEPT !.inside = ~@]
                      ELSE st2

RECURSIVE PipLoop(_, _, _, _)
PipLoop(point, vertices, i, st) ==
    IF i >= Len(vertices) \/ st.raised # None
    THEN st
    ELSE PipLoop(point, vertices, i + 1, PipEdge(point, vertices, i, st))


\* point_in_polygon reading vertices[0] before its loop.
point_in_polygon_run_first_vertex(point, vertices) ==
    IF Len(vertices) = 0
    THEN [PipStart EXCEPT !.raised = "IndexError"]
    ELSE PipLoop(point, vertices, 0, PipStart)

\* point_in_polygon, with the record of how the answer was reached
point_in_polygon_run(point, vertices) == PipLoop(point, vertices, 0, PipStart)

\* point_in_polygon(self, point, vertices): the value returned
point_in_polygon(point, vertices) == point_in_polygon_run(point, vertices).inside

\* point_in_shape(self, point, body, shape)
point_in_shape(point, body, shape) ==
    IF shape.kind = "Circle"
    THEN LET dx == point[1] - body.position[1]
             dy == point[2] - body.position[2]
         IN  dx * dx + dy * dy <= shape.radius * shape.radius
    ELSE IF shape.kind = "Poly"
    THEN point_in_polygon(point, shape.vertices)  \* shape.get_vertices()
    ELSE FALSE

\* ------------------------------------------------------- click handlers
\* pygame.mouse.get_pressed()[i], pressed being <<left, middle, right>>
get_pressed(pressed, i) == pressed[i + 1]


\* handle_mechanics_click looking point_in_shape up before the loop, so that
\* the lookup fails on an empty list too.
handle_mechanics_click_eager_lookup(s0, mouse_pos, pressed) ==
    Raise(Called(s0, "handle_mechanics_click", mouse_pos), "AttributeError")

\* PhysicsSandbox defines no method point_in_shape (the function of that name
\* is a module-level one), so the attribute lookup in the loop body raises.
handle_mechanics_click(s0, mouse_pos, pressed) ==
    LET s == Called(s0, "handle_mechanics_click", mouse_pos) IN
    IF Len(s.objects) > 0
    THEN Raise(s, "AttributeError")
    ELSE IF get_pressed(pressed, 2)
    THEN [s EXCEPT !.applying_force = TRUE, !.force_start_pos = mouse_pos]
    ELSE s

\* handle_mechanics_motion moving every tracked body to the pointer.
handle_mechanics_motion_every_body(s0, mouse_pos, pressed) ==
    LET s00 == Called(s0, "handle_mechanics_motion", mouse_pos)
        s == IF s00.selected_object # NoRef
             THEN Called(s00, "get_pressed", pressed)
             ELSE s00
        s1 == IF s.selected_object # NoRef /\ get_pressed(pressed, 0)
              THEN [s EXCEPT !.objects = [i \in 1..Len(s.objects) |->
                        [s.objects[i] EXCEPT !.position = mouse_pos,
                                             !.velocity = << 0, 0 >>]]]
              ELSE s
    IN  IF s1.applying_force
        THEN [s1 EXCEPT !.force_direction =
                 << mouse_pos[1] - s1.force_start_pos[1],
                    mouse_pos[2] - s1.force_start_pos[2] >>]
        ELSE s1

\* (get_pressed is read only when an object is selected: `and` short-circuits)
handle_mechanics_motion(s0, mouse_pos, pressed) ==
    LET s00 == Called(s0, "handle_mechanics_motion", mouse_pos)
        s == IF s00.selected_object # NoRef
             THEN Called(s00, "get_pressed", pressed)
             ELSE s00
        s1 == IF s.selected_object # NoRef /\ get_pressed(pressed, 0)
              THEN [s EXCEPT !.objects = [i \in 1..Len(s.objects) |->
                        IF s.objects[i].id = s.selected_object
                        THEN [s.objects[i] EXCEPT !.position = mouse_pos,
                                                  !.velocity = << 0, 0 >>]
                        ELSE s.objects[i]]]
              ELSE s
    IN  IF s1.applying_force
        THEN [s1 EXCEPT !.force_direction =
                 << mouse_pos[1] - s1.force_start_pos[1],
                    mouse_pos[2] - s1.force_start_pos[2] >>]
        ELSE s1

ComponentRect(component) ==
    Rect(component.position[1] - component.size[1] \div 2,
         component.position[2] - component.size[2] \div 2,
         component.size[1], component.size[2])


\* handle_electricity_click flipping the on flag whatever the component's type.
handle_electricity_click_any_type(s0, mouse_pos) ==
    LET s == Called(s0, "handle_electricity_click", mouse_pos)
        Hit(component) == collidepoint(ComponentRect(component), mouse_pos)
        k == FirstIndex(s.components, Hit)
    IN  IF k = 0 THEN s
        ELSE [s EXCEPT !.selected_component = s.components[k].id,
                       !.dragging_component = TRUE,
                       !.components[k].on = ~@]

handle_electricity_click(s0, mouse_pos) ==
    LET s == Called(s0, "handle_electricity_click", mouse_pos)
        Hit(component) == collidepoint(ComponentRect(component), mouse_pos)
        k == FirstIndex(s.components, Hit)
    IN  IF k = 0 THEN s
        ELSE [s EXCEPT !.selected_component = s.components[k].id,
                       !.dragging_component = TRUE,
                       !.components[k].on =
                           IF s.components[k].type = "SWITCH" THEN ~@ ELSE @]

handle_electricity_motion(s0, mouse_pos) ==
    LET s == Called(s0, "handle_electricity_motion", mouse_pos) IN
    IF s.dragging_component /\ s.selected_component # NoRef
    THEN [s EXCEPT !.components = [i \in 1..Len(s.components) |->
              IF s.components[i].id = s.selected_component
              THEN [s.components[i] EXCEPT !.position = mouse_pos]
              ELSE s.components[i]]]
    ELSE s


\* handle_fluid_click emitting one particle fewer than range(5) gives.
handle_fluid_click_short(s0, mouse_pos, pressed, offsets) ==
    LET s == Called(Called(s0, "handle_fluid_click", mouse_pos),
                    "get_pressed", pressed)
    IN
    IF get_pressed(pressed, 0)
    THEN [s EXCEPT !.particles = @ \o
             [k \in 1..(EmitCount - 1) |->
                 Particle(<< mouse_pos[1] + offsets[k][1],
                             mouse_pos[2] + offsets[k][2] >>,
                          s.selected_fluid)]]
    ELSE s

\* handle_fluid_click assigning the new batch to the list instead of appending.
handle_fluid_click_restarting(s0, mouse_pos, pressed, offsets) ==
    LET s == Called(Called(s0, "handle_fluid_click", mouse_pos),
                    "get_pressed", pressed)
    IN
    IF get_pressed(pressed, 0)
    THEN [s EXCEPT !.particles =
             [k \in 1..EmitCount |->
                 Particle(<< mouse_pos[1] + offsets[k][1],
                             mouse_pos[2] + offsets[k][2] >>,
                          s.selected_fluid)]]
    ELSE s

\* offsets: the EmitCount pairs <<offset_x, offset_y>> random.randint produced
handle_fluid_click(s0, mouse_pos, pressed, offsets) ==
    LET s == Called(Called(s0, "handle_fluid_click", mouse_pos),
                    "get_pressed", pressed)
    IN
    IF get_pressed(pressed, 0)
    THEN [s EXCEPT !.particles = @ \o
             [k \in 1..EmitCount |->
                 Particle(<< mouse_pos[1] + offsets[k][1],
                             mouse_pos[2] + offsets[k][2] >>,
                          s.selected_fluid)]]
    ELSE s


\* The heating test with a point source's rim counted in (dist <= radius).
Heated_rim_included(heat_source, mouse_pos) ==
    IF "position" \in DOMAIN heat_source /\ "radius" \in DOMAIN heat_source
    THEN LET dx == mouse_pos[1] - heat_source.position[1]
             dy == mouse_pos[2] - heat_source.position[2]
         IN  dx * dx + dy * dy <= heat_source.radius * heat_source.radius
    ELSE IF "rect" \in DOMAIN heat_source
    THEN collidepoint(heat_source.rect, mouse_pos)
    ELSE FALSE

\* Whether the click at mouse_pos heats this entry of heat_sources.
Heated(heat_source, mouse_pos) ==
    IF "position" \in DOMAIN heat_source /\ "radius" \in DOMAIN heat_source
    THEN LET dx == mouse_pos[1] - heat_source.position[1]
             dy == mouse_pos[2] - heat_source.position[2]
         IN  dx * dx + dy * dy < heat_source.radius * heat_source.radius
    ELSE IF "rect" \in DOMAIN heat_source
    THEN collidepoint(heat_source.rect, mouse_pos)
    ELSE FALSE

handle_thermal_click(s0, mouse_pos) ==
    LET s == Called(s0, "handle_thermal_click", mouse_pos)
        hit == \E i \in 1..Len(s.heat_sources) : Heated(s.heat_sources[i], mouse_pos)
    IN  [s EXCEPT !.heat_sources = [i \in 1..Len(s.heat_sources) |->
                      IF Heated(s.heat_sources[i], mouse_pos)
                      THEN [s.heat_sources[i] EXCEPT
                               !.temperature = @ + Whole(HeatStep)]
                      ELSE s.heat_sources[i]],
                  !.heat_clicks = IF hit THEN @ + 1 ELSE @]


\* ------------------------------------------------------- handle_events

\* The button loop considering every button, whatever its category.
ButtonActive_any(button, m) == TRUE

\* SliderValue measuring the pointer from the left edge of the window.
SliderValue_from_origin(slider, mouse_pos) ==
    LET value == slider.min_value
                   + (mouse_pos[1]
                        * (slider.max_value - slider.min_value)) \div slider.rect.w
    IN  Max(slider.min_value, Min(slider.max_value, value))

\* The condition under which the button loop considers a button.
ButtonActive(button, m) ==
    \/ "category" \notin DOMAIN button
    \/ button.category = Lower(m)
    \/ button.category = "material"

\* The condition under which the slider loops consider a slider.
SliderActive(slider, m) == slider.category = Lower(m)

\* Index of the button a pointer-down at mouse_pos runs, 0 when none.
ButtonAt(s, mouse_pos) ==
    LET Hit(button) == ButtonActive(button, s.mode)
                          /\ collidepoint(button.rect, mouse_pos)
    IN  FirstIndex(Buttons, Hit)

\* Index of the slider a pointer event at mouse_pos changes, 0 when none.
SliderAt(s, mouse_pos) ==
    LET Hit(slider) == SliderActive(slider, s.mode)
                          /\ collidepoint(slider.rect, mouse_pos)
    IN  FirstIndex(Sliders, Hit)

\* button["action"]()
Invoke(s, action) ==
    CASE action.fn = "set_mode" -> set_mode(s, action.arg)
      [] action.fn = "set_material" -> set_material(s, action.arg)
      [] action.fn = "set_fluid" -> set_fluid(s, action.arg)
      [] action.fn = "add_circle" -> add_circle(s)
      [] action.fn = "add_box" -> add_box(s)
      [] action.fn = "add_pendulum" -> add_pendulum(s)
      [] action.fn = "add_spring" -> add_spring(s)
      [] action.fn = "add_component" -> add_component(s, action.arg)
      [] action.fn = "add_obstacle" -> add_obstacle(s)
      [] action.fn = "add_floating_object" -> add_floating_object(s)
      [] action.fn = "add_heat_source" -> add_heat_source(s)
      [] action.fn = "add_thermal_conductor" -> add_thermal_conductor(s)
      [] action.fn = "add_thermal_insulator" -> add_thermal_insulator(s)

\* slider["action"](value)
InvokeSetter(s, fn, value) ==
    CASE fn = "set_gravity" -> set_gravity(s, value)
      [] fn = "set_friction" -> set_friction(s, value)
      [] fn = "set_voltage" -> set_voltage(s, value)
      [] fn = "set_resistance" -> set_resistance(s, value)
      [] fn = "set_viscosity" -> set_viscosity(s, value)
      [] fn = "set_flow_rate" -> set_flow_rate(s, value)
      [] fn = "set_temperature" -> set_temperature(s, value)
      [] fn = "set_conductivity" -> set_conductivity(s, value)

\* ratio = (mouse_pos[0] - rect.x) / rect.width
\* value = max(min_value, min(max_value, min_value + ratio * (max - min)))
SliderValue(slider, mouse_pos) ==
    LET value == slider.min_value
                   + ((mouse_pos[1] - slider.rect.x)
                        * (slider.max_value - slider.min_value)) \div slider.rect.w
    IN  Max(slider.min_value, Min(slider.max_value, value))

\* The body both slider loops run for the slider they hit.
MoveSlider(s, i, mouse_pos) ==
    LET value == SliderValue(Sliders[i], mouse_pos) IN
    InvokeSetter([s EXCEPT !.slider_value[i] = value], Sliders[i].action, value)

Begin(s) == [s EXCEPT !.calls = << >>]

\* event.type == pygame.QUIT
handle_events_quit(s0) == [Begin(s0) EXCEPT !.status = "exited"]

\* event.type == pygame.MOUSEBUTTONDOWN
\* A variant without the returns: after a button or a slider the active
\* mode's click handler still runs.
handle_events_mousebuttondown_falling_through(s0, mouse_pos, pressed, offsets) ==
    LET s == Called(Begin(s0), "get_pos", mouse_pos)
        b == ButtonAt(s, mouse_pos)
        i == SliderAt(s, mouse_pos)
        s1 == IF b # 0
              THEN [Invoke(s, Buttons[b].action) EXCEPT !.selected_button = b]
              ELSE s
        s2 == IF i # 0 THEN MoveSlider(s1, i, mouse_pos) ELSE s1
    IN  CASE s2.mode = "MECHANICS" ->
               handle_mechanics_click(s2, mouse_pos, pressed)
          [] s2.mode = "ELECTRICITY" ->
               handle_electricity_click(s2, mouse_pos)
          [] s2.mode = "FLUID" ->
               handle_fluid_click(s2, mouse_pos, pressed, offsets)
          [] s2.mode = "THERMAL" ->
               handle_thermal_click(s2, mouse_pos)

handle_events_mousebuttondown(s0, mouse_pos, pressed, offsets) ==
    LET s == Called(Begin(s0), "get_pos", mouse_pos)
        b == ButtonAt(s, mouse_pos)
        i == SliderAt(s, mouse_pos)
    IN  IF b # 0
        THEN [Invoke(s, Buttons[b].action) EXCEPT !.selected_button = b]
        ELSE IF i # 0
        THEN MoveSlider(s, i, mouse_pos)
        ELSE CASE s.mode = "MECHANICS" ->
                    handle_mechanics_click(s, mouse_pos, pressed)
               [] s.mode = "ELECTRICITY" ->
                    handle_electricity_click(s, mouse_pos)
               [] s.mode = "FLUID" ->
                    handle_fluid_click(s, mouse_pos, pressed, offsets)
               [] s.mode = "THERMAL" ->
                    handle_thermal_click(s, mouse_pos)

\* event.type == pygame.MOUSEBUTTONUP
handle_events_mousebuttonup(s0) ==
    LET s == Begin(s0) IN
    CASE s.mode = "MECHANICS" ->
           [s EXCEPT !.selected_object = NoRef, !.applying_force = FALSE]
      [] s.mode = "ELECTRICITY" ->
           [s EXCEPT !.dragging_component = FALSE, !.selected_component = NoRef]
      [] OTHER -> s

\* event.type == pygame.MOUSEMOTION
handle_events_mousemotion(s0, mouse_pos, pressed) ==
    LET s == Called(Begin(s0), "get_pos", mouse_pos)
        s1 == CASE s.mode = "MECHANICS" ->
                     handle_mechanics_motion(s, mouse_pos, pressed)
                [] s.mode = "ELECTRICITY" ->
                     handle_electricity_motion(s, mouse_pos)
                [] OTHER -> s
        i == SliderAt(s1, mouse_pos)
    IN  IF get_pressed(pressed, 0) /\ i # 0
        THEN MoveSlider(s1, i, mouse_pos)
        ELSE s1

\* event.type == pygame.KEYDOWN
handle_events_keydown(s0, key) ==
    LET s == Begin(s0) IN
    CASE key = "ESCAPE" -> [s EXCEPT !.status = "exited"]
      [] key = "r" -> set_mode(s, s.mode)
      [] key = "1" -> set_mode(s, "MECHANICS")
      [] key = "2" -> set_mode(s, "ELECTRICITY")
      [] key = "3" -> set_mode(s, "FLUID")
      [] key = "4" -> set_mode(s, "THERMAL")
      [] OTHER -> s


\* -------------------------------------------------------------- actions
\* An event source: the keys, pointer positions (by active mode), button
\* states and random outcomes it delivers, the list length and click counts
\* it stops at, and the method calls it keeps a record of.

\* The lists and counters stay within the source's bounds.
Bounded(t, src) ==
    /\ Len(t.objects) <= src.cap
    /\ Len(t.components) <= src.cap
    /\ Len(t.obstacles) <= src.cap
    /\ Len(t.heat_sources) <= src.cap
    /\ Len(t.particles) <= src.emits * EmitCount
    /\ t.heat_clicks <= src.heat

Traced(t, src) ==
    LET Kept(c) == c.fn \in src.trace IN
    [t EXCEPT !.calls = SelectSeq(@, Kept)]

Handled(t, src) ==
    /\ status = "running"
    /\ Bounded(t, src)
    /\ Becomes(Traced(t, src))
    /\ UNCHANGED pip

Quit(src) == Handled(handle_events_quit(St), src)

KeyDown(key, src) == Handled(handle_events_keydown(St, key), src)

MouseButtonDown(mouse_pos, pressed, offsets, src) ==
    Handled(handle_events_mousebuttondown(St, mouse_pos, pressed, offsets), src)

MouseButtonUp(src) == Handled(handle_events_mousebuttonup(St), src)

MouseMotion(mouse_pos, pressed, src) ==
    Handled(handle_events_mousemotion(St, mouse_pos, pressed), src)

Step(src) ==
    \/ Quit(src)
    \/ \E key \in src.keys : KeyDown(key, src)
    \/ \E mouse_pos \in src.points[mode], pressed \in src.pressed,
          offsets \in src.offsets :
          MouseButtonDown(mouse_pos, pressed, offsets, src)
    \/ MouseButtonUp(src)
    \/ \E mouse_pos \in src.points[mode], pressed \in src.pressed :
          MouseMotion(mouse_pos, pressed, src)

\* ---------------------------------------------------------- event sources
Left == << TRUE, FALSE, FALSE >>
Right == << FALSE, FALSE, TRUE >>
Released == << FALSE, FALSE, FALSE >>

\* Sample outcomes of the 2 * EmitCount calls of random.randint(-10, 10).
OffsetsLow == [k \in 1..EmitCount |-> << -Jitter, -Jitter >>]
OffsetsHigh == [k \in 1..EmitCount |-> << Jitter, Jitter >>]
OffsetsMixed == [k \in 1..EmitCount |-> << (2 * k - 6) * (Jitter \div 4),
                                            (6 - 2 * k) * (Jitter \div 4) >>]

\* A point inside button i / at horizontal offset dx inside slider i.
ButtonPoint(i) == << Buttons[i].rect.x + 10, Buttons[i].rect.y + 10 >>
SliderPoint(i, dx) == << Sliders[i].rect.x + dx, Sliders[i].rect.y + 10 >>

Center == << WIDTH \div 2, HEIGHT \div 2 >>
Far == << 700, 500 >>
\* Inside the rectangle of a switch placed at Center, outside that of every
\* other component placed there.
SwitchCorner == << Center[1] - 25, Center[2] - 10 >>

\* No hit-test call is under examination.
IdlePip ==
    [phase |-> "idle", fn |-> None, point |-> << >>, vertices |-> << >>,
     centre |-> << >>, radius |-> 0, inside |-> FALSE, raised |-> None,
     stale |-> FALSE, horizontal_toggle |-> FALSE]

Init ==
    /\ Is(InitState)
    /\ pip = IdlePip

\* A session across the four modes: the mode keys, a mode button, one add
\* button per mode, clicks and drags on the canvas; one emit click and one
\* heating click.
Session ==
    [keys |-> {"1", "2", "3", "4", "r", "ESCAPE"},
     points |-> [m \in Modes |->
        {ButtonPoint(3), Center}
          \cup CASE m = "MECHANICS" -> {ButtonPoint(9)}
                 [] m = "ELECTRICITY" -> {ButtonPoint(13)}
                 [] m = "FLUID" -> {ButtonPoint(20)}
                 [] m = "THERMAL" -> {ButtonPoint(21)}],
     pressed |-> {Left},
     offsets |-> {OffsetsMixed},
     cap |-> SessionCap, emits |-> 1, heat |-> 1,
     trace |-> {"set_mode"}]

Next == Step(Session)

Spec == Init /\ [][Next]_vars

\* ------------------------------------------------------------------ C1
\* The entity sets of a mode, and what they are when the mode is empty.
Entities(m) ==
    CASE m = "MECHANICS" -> << objects >>
      [] m = "ELECTRICITY" -> << components, wires >>
      [] m = "FLUID" -> << particles, obstacles >>
      [] m = "THERMAL" -> << heat_sources, temperature_map >>

NoEntities(m) ==
    CASE m = "MECHANICS" -> << << >> >>
      [] m = "ELECTRICITY" -> << << >>, << >> >>
      [] m = "FLUID" -> << << >>, << >> >>
      [] m = "THERMAL" -> << << >>, AmbientMap >>

SetModeCall(m) == << [fn |-> "set_mode", arg |-> m] >>

\* C1: every step that switches to mode m (set_mode(m), by key or by mode
\* button) leaves m's own entity sets empty (the thermal grid at ambient) and
\* the entity sets of the three other modes as they were.
C1_ModeSwitchIsolation ==
    [][\A m \in Modes :
          calls' = SetModeCall(m) =>
             /\ Entities(m)' = NoEntities(m)
             /\ \A o \in Modes \ {m} : Entities(o)' = Entities(o)]_vars

\* A switch to fluid mode has happened while the three other modes hold entities.
C1_Witness ==
    /\ calls = SetModeCall("FLUID")
    /\ selected_button = 3
    /\ Entities("FLUID") = NoEntities("FLUID")
    /\ objects # << >> /\ components # << >> /\ heat_sources # << >>


\* ------------------------------------------------------------------ C2
\* Work in electricity mode: the mode key, reset, the battery, resistor and
\* switch buttons, clicks and drags on the canvas.
Electricity ==
    [keys |-> {"2", "r"},
     points |-> [m \in Modes |->
        IF m = "ELECTRICITY"
        THEN {ButtonPoint(13), ButtonPoint(14), ButtonPoint(16), Center,
              SwitchCorner}
        ELSE {}],
     pressed |-> {Left},
     offsets |-> {OffsetsMixed},
     cap |-> MaxEntities, emits |-> 0, heat |-> 0,
     trace |-> {"handle_electricity_click"}]

NextElectricity == Step(Electricity)

SpecElectricity == Init /\ [][NextElectricity]_vars

RECURSIVE SumValues(_, _)
\* Sum of the values of the components whose type is in types.
SumValues(cs, types) ==
    IF cs = << >> THEN 0
    ELSE (IF Head(cs).type \in types THEN Head(cs).value ELSE 0)
            + SumValues(Tail(cs), types)

TotalEMF == SumValues(components, {"BATTERY"})
TotalResistance == SumValues(components, {"RESISTOR", "BULB"})
AllSwitchesOn ==
    \A k \in 1..Len(components) :
        components[k].type = "SWITCH" => components[k].on

\* c (in units of 1/Unit ampere) is the current the claim gives the circuit.
IsSolvedCurrent(c) ==
    IF ~AllSwitchesOn \/ TotalResistance = 0
    THEN c = 0
    ELSE c * TotalResistance = TotalEMF * Unit

\* C2: once the circuit holds a battery and a resistor, the program's
\* voltages/currents state records the solved circuit: the current E/R (0 with
\* a switch off or R = 0) and, for each resistor, the drop current x resistance.
C2_CircuitSolved ==
    (TotalEMF > 0 /\ TotalResistance > 0) =>
        /\ circuit_solved
        /\ \E item \in currents : IsSolvedCurrent(item[2])
        /\ \A k \in 1..Len(components) :
              components[k].type \in {"RESISTOR", "BULB"} =>
                 \E c \in currents, v \in voltages :
                    /\ v[1] = components[k].id
                    /\ v[2] * Unit = c[2] * components[k].value


\* ------------------------------------------------------------------ C3
\* Work in mechanics mode: reset, the circle and box buttons, clicks at the
\* centre of a spawned circle, on its boundary, just outside it and far away,
\* with the left or the right button down.
OnBoundary == << SpawnPoint[1] + CircleRadius, SpawnPoint[2] >>
JustOutside == << SpawnPoint[1] + CircleRadius + 1, SpawnPoint[2] >>

MechanicsClicks == {SpawnPoint, OnBoundary, JustOutside, Far}

Mechanics ==
    [keys |-> {"1", "r"},
     points |-> [m \in Modes |->
        IF m = "MECHANICS"
        THEN {ButtonPoint(9), ButtonPoint(10)} \cup MechanicsClicks
        ELSE {}],
     pressed |-> {Left, Right},
     offsets |-> {OffsetsMixed},
     cap |-> MaxEntities, emits |-> 0, heat |-> 0,
     trace |-> {"handle_mechanics_click"}]

NextMechanics == Step(Mechanics)

SpecMechanics == Init /\ [][NextMechanics]_vars

\* The last event was a pointer-down that reached the mode's click handler fn
\* with the pointer at p.
ClickedAt(fn, p) ==
    Len(calls) = 1 /\ calls[1].fn = fn /\ calls[1].arg = p

\* C3: a mechanics-mode click at p with a circle first in the object list
\* selects that circle if and only if the squared distance from p to its
\* centre is at most its radius squared.
C3_CirclePicked ==
    [][\A p \in MechanicsClicks :
          (ClickedAt("handle_mechanics_click", p)' /\ objects # << >>
              /\ objects[1].shape.kind = "Circle") =>
             LET dx == p[1] - objects[1].position[1]
                 dy == p[2] - objects[1].position[2]
                 r == objects[1].shape.radius
             IN  (selected_object' = objects[1].id)
                    <=> (dx * dx + dy * dy <= r * r)]_vars

\* ----------------------------------------------------------------- C10
ElectricityClicks == {Center, SwitchCorner}

Inside(component, p) == collidepoint(ComponentRect(component), p)

\* C10 as claimed: an electricity-mode click at any point inside a switch's
\* rectangle flips that switch, whatever other components are placed.
C10_AnyClickInsideFlips ==
    [][\A p \in ElectricityClicks :
          ClickedAt("handle_electricity_click", p)' =>
             \A k \in 1..Len(components) :
                (components[k].type = "SWITCH" /\ Inside(components[k], p)) =>
                   components'[k].on = ~components[k].on]_vars

\* C10, amended: an electricity-mode click at p flips the switch whose
\* rectangle contains p when no earlier component of the list contains p, and
\* changes the on flag of no other component.
C10_FirstHitSwitchFlips ==
    [][\A p \in ElectricityClicks :
          ClickedAt("handle_electricity_click", p)' =>
             /\ Len(components') = Len(components)
             /\ \A k \in 1..Len(components) :
                   LET first == /\ Inside(components[k], p)
                                /\ \A j \in 1..(k - 1) : ~Inside(components[j], p)
                   IN  components'[k].on =
                          IF first /\ components[k].type = "SWITCH"
                          THEN ~components[k].on
                          ELSE components[k].on]_vars

\* A click inside the switch only has flipped a switch placed after a battery.
C10_Witness ==
    /\ ClickedAt("handle_electricity_click", SwitchCorner)
    /\ Len(components) = 2
    /\ components[1].type = "BATTERY"
    /\ components[2].type = "SWITCH" /\ ~components[2].on

\* ------------------------------------------------------------------ C4
\* Calls of the two hit-test functions on their own: polygons with three or
\* four vertices on the even points of a grid, taken in either orientation,
\* and test points on every integer point of the grid and one beyond it, so
\* that points fall on vertices, on edges, inside and outside.
GridCoords == {2 * k : k \in 0..GridMax}
GridPoints == GridCoords \X GridCoords
TestCoords == (-1)..(2 * GridMax + 1)
TestPoints == TestCoords \X TestCoords

\* z component of (b - a) x (c - b)
Cross(a, b, c) ==
    (b[1] - a[1]) * (c[2] - b[2]) - (b[2] - a[2]) * (c[1] - b[1])

\* All turns of the closed vertex list go the same way.
Convex(vertices) ==
    LET n == Len(vertices)
        V(i) == vertices[((i - 1) % n) + 1]
        Turn(i) == Cross(V(i), V(i + 1), V(i + 2))
    IN  /\ n >= 3
        /\ \/ \A i \in 1..n : Turn(i) > 0
           \/ \A i \in 1..n : Turn(i) < 0

Polygons ==
    {vertices \in (GridPoints \X GridPoints \X GridPoints)
                    \cup (GridPoints \X GridPoints \X GridPoints \X GridPoints) :
        Convex(vertices)}

\* point_in_polygon(None, point, vertices) is called and returns.
CallPointInPolygon(point, vertices) ==
    /\ pip.phase = "idle"
    /\ LET run == point_in_polygon_run(point, vertices) IN
       pip' = [IdlePip EXCEPT !.phase = "returned", !.fn = "point_in_polygon",
                              !.point = point, !.vertices = vertices,
                              !.inside = run.inside, !.raised = run.raised,
                              !.stale = run.stale,
                              !.horizontal_toggle = run.horizontal_toggle]
    /\ UNCHANGED << mode, status, error, space, objects, selected_object,
                    selected_material, applying_force, force_start_pos,
                    force_direction, pendulum, spring, components, wires,
                    selected_component, dragging_component, circuit_solved,
                    voltages, currents, particles, obstacles, selected_fluid,
                    heat_sources, temperature_map, slider_value,
                    selected_button, calls, heat_clicks >>

\* point_in_shape(None, point, body, shape) is called on a circle and returns.
CallPointInShape(point, centre, radius) ==
    /\ pip.phase = "idle"
    /\ pip' = [IdlePip EXCEPT !.phase = "returned", !.fn = "point_in_shape",
                              !.point = point, !.centre = centre,
                              !.radius = radius,
                              !.inside = point_in_shape(point,
                                            [position |-> centre], Circle(radius))]
    /\ UNCHANGED << mode, status, error, space, objects, selected_object,
                    selected_material, applying_force, force_start_pos,
                    force_direction, pendulum, spring, components, wires,
                    selected_component, dragging_component, circuit_solved,
                    voltages, currents, particles, obstacles, selected_fluid,
                    heat_sources, temperature_map, slider_value,
                    selected_button, calls, heat_clicks >>

PointInPolygon ==
    /\ pip.phase = "idle"
    /\ \E point \in TestPoints, vertices \in Polygons :
          CallPointInPolygon(point, vertices)

PointInShape ==
    /\ pip.phase = "idle"
    /\ \E point \in MechanicsClicks :
          CallPointInShape(point, SpawnPoint, CircleRadius)

NextPip == PointInPolygon \/ PointInShape

SpecPip == Init /\ [][NextPip]_vars

\* Edges (1-based) a ray from point towards +x crosses, by the even-odd rule:
\* an edge counts when it is not horizontal, point's y lies in the half-open
\* span (lower end, upper end] of the edge, and the edge meets the ray's line
\* at or to the right of the point.
CrossedEdges(point, vertices) ==
    LET n == Len(vertices) IN
    {i \in 1..n :
        LET a == vertices[i]
            b == vertices[(i % n) + 1]
            lo == IF a[2] <= b[2] THEN a ELSE b
            hi == IF a[2] <= b[2] THEN b ELSE a
        IN  /\ a[2] # b[2]
            /\ lo[2] < point[2] /\ point[2] <= hi[2]
            /\ (point[1] - lo[1]) * (hi[2] - lo[2])
                  <= (point[2] - lo[2]) * (hi[1] - lo[1])}

\* The reference even-odd answer.
EvenOddInside(point, vertices) ==
    Cardinality(CrossedEdges(point, vertices)) % 2 = 1

\* point lies on the edge from a to b (ends included)
OnEdge(point, a, b) ==
    /\ Cross(a, b, point) = 0
    /\ Min(a[1], b[1]) <= point[1] /\ point[1] <= Max(a[1], b[1])
    /\ Min(a[2], b[2]) <= point[2] /\ point[2] <= Max(a[2], b[2])

OnOutline(point, vertices) ==
    \E i \in 1..Len(vertices) :
        OnEdge(point, vertices[i], vertices[(i % Len(vertices)) + 1])

\* C4: for every convex polygon and every point, on a vertex or an edge
\* included, point_in_polygon returns without raising and its answer is the
\* answer of even-odd ray casting that skips horizontal edges.
C4_AgreesWithEvenOdd ==
    (pip.phase = "returned" /\ pip.fn = "point_in_polygon"
        /\ Convex(pip.vertices)) =>
       /\ pip.raised = None
       /\ pip.inside = EvenOddInside(pip.point, pip.vertices)

\* point_in_polygon has answered "inside" for a point that is a vertex of a
\* four-sided convex polygon with a horizontal edge.
C4_Witness ==
    /\ pip.phase = "returned" /\ pip.fn = "point_in_polygon"
    /\ Len(pip.vertices) = 4 /\ Convex(pip.vertices)
    /\ \E i \in 1..4 : pip.vertices[i] = pip.point
    /\ \E i \in 1..4 : pip.vertices[i][2] = pip.vertices[(i % 4) + 1][2]
    /\ OnOutline(pip.point, pip.vertices)
    /\ pip.inside

\* ------------------------------------------------------------------ C5
\* Work in fluid mode and next to it: the fluid, thermal and mechanics keys
\* and reset, the water and oil buttons, the obstacle button, the viscosity
\* slider, clicks and motion on the canvas with the primary button down or
\* up, and the three sample outcomes of the random offsets.
FluidClicks == {Center}

Fluid ==
    [keys |-> {"1", "3", "4", "r"},
     points |-> [m \in Modes |->
        CASE m = "FLUID" ->
               {ButtonPoint(17), ButtonPoint(18), ButtonPoint(19),
                SliderPoint(5, 75)} \cup FluidClicks
          [] m = "THERMAL" -> {Center}
          [] m = "MECHANICS" -> {Far}
          [] OTHER -> {}],
     pressed |-> {Left, Released},
     offsets |-> {OffsetsLow, OffsetsHigh, OffsetsMixed},
     cap |-> SessionCap, emits |-> MaxEmits, heat |-> 0,
     trace |-> {"set_mode", "handle_fluid_click", "get_pressed"}]

NextFluid == Step(Fluid)

SpecFluid == Init /\ [][NextFluid]_vars

\* The last event was a fluid-mode click at p that read the buttons as pressed.
EmitCall(p, pressed) ==
    /\ Len(calls) = 2
    /\ calls[1].fn = "handle_fluid_click" /\ calls[1].arg = p
    /\ calls[2].fn = "get_pressed" /\ calls[2].arg = pressed

\* C5: a fluid-mode click at (x, y) with the primary button down and fluid F
\* selected appends exactly EmitCount (5) particles, each of material F, at
\* rest, at most Jitter (10) away from (x, y) on each axis, and leaves the
\* particles already in the list as they were.
C5_EmitAppendsFive ==
    [][\A p \in FluidClicks :
          EmitCall(p, Left)' =>
             /\ Len(particles') = Len(particles) + 5
             /\ IsPrefix(particles, particles')
             /\ \A k \in (Len(particles) + 1)..Len(particles') :
                   /\ particles'[k].material = selected_fluid
                   /\ particles'[k].velocity = << 0, 0 >>
                   /\ particles'[k].position[1] - p[1] \in (-10)..10
                   /\ particles'[k].position[2] - p[2] \in (-10)..10]_vars

\* A second emit, of oil, has been appended after a batch of water.
C5_Witness ==
    /\ EmitCall(Center, Left)
    /\ Len(particles) = 10
    /\ particles[1].material = "Water" /\ particles[10].material = "Oil"
    /\ particles[10].position = << Center[1] + 10, Center[2] + 10 >>
    /\ selected_fluid = "Oil"

\* ------------------------------------------------------------------ C6
\* The last event called set_mode(FLUID).
FluidReset == \E j \in 1..Len(calls) :
                 calls[j].fn = "set_mode" /\ calls[j].arg = "FLUID"

\* C6: on every step other than a reset of fluid mode (set_mode(FLUID)) the
\* particle list keeps every particle it had, in place: it only grows by
\* appending, whatever the event (another mode's switch or reset, a click, a
\* motion, a slider change).
C6_ParticlesOnlyGrow ==
    [][~FluidReset' => IsPrefix(particles, particles')]_vars

\* Two batches of particles are still there after a switch to thermal mode.
C6_Witness ==
    /\ Len(calls) = 1 /\ calls[1].fn = "set_mode" /\ calls[1].arg = "THERMAL"
    /\ mode = "THERMAL"
    /\ Len(particles) = 10

\* ------------------------------------------------------------------ C7
\* Everything that stores a material name gets created: the material buttons
\* (active in every mode), a circle, the oil button, a floating object, an
\* emit, a metal rod and an insulator.
Materials ==
    [keys |-> {"1", "3", "4"},
     points |-> [m \in Modes |->
        CASE m = "MECHANICS" -> {ButtonPoint(6), ButtonPoint(9)}
          [] m = "FLUID" -> {ButtonPoint(8), ButtonPoint(18), ButtonPoint(20),
                             Center}
          [] m = "THERMAL" -> {ButtonPoint(22), ButtonPoint(23)}
          [] OTHER -> {}],
     pressed |-> {Left},
     offsets |-> {OffsetsMixed},
     cap |-> SessionCap, emits |-> 1, heat |-> 0,
     trace |-> {}]

NextMaterials == Step(Materials)

SpecMaterials == Init /\ [][NextMaterials]_vars

\* The material names the solid entities store (fields absent are skipped).
SolidNames ==
    {objects[i].material : i \in 1..Len(objects)}
       \cup {obstacles[i].material :
                i \in {j \in 1..Len(obstacles) : "material" \in DOMAIN obstacles[j]}}
       \cup {heat_sources[i].material :
                i \in {j \in 1..Len(heat_sources) :
                          "material" \in DOMAIN heat_sources[j]}}
       \cup {selected_material}

\* The names the particles and the fluid selection store.
LiquidNames ==
    {particles[i].material : i \in 1..Len(particles)} \cup {selected_fluid}

ControlPoints ==
    {ButtonPoint(2), ButtonPoint(6), ButtonPoint(9), SliderPoint(1, 75)}

Controls ==
    [keys |-> {"1", "3", "4"},
     points |-> [m \in Modes |->
        CASE m = "MECHANICS" -> ControlPoints
          [] m = "ELECTRICITY" -> {ButtonPoint(6), ButtonPoint(9)}
          [] m = "FLUID" -> {ButtonPoint(6), SliderPoint(1, 75)}
          [] m = "THERMAL" -> {ButtonPoint(9), SliderPoint(1, 75)}],
     pressed |-> {Left},
     offsets |-> {OffsetsMixed},
     cap |-> SessionCap, emits |-> 0, heat |-> 0,
     trace |-> {"get_pos"}
                 \cup {Buttons[b].action.fn : b \in 1..Len(Buttons)}
                 \cup {Sliders[i].action : i \in 1..Len(Sliders)}]

NextControls == Step(Controls)

SpecControls == Init /\ [][NextControls]_vars

\* Call c is the action of button b / of slider i.
IsButtonCall(c, b) ==
    c.fn = Buttons[b].action.fn /\ c.arg = Buttons[b].action.arg

IsSliderCall(c, i) == c.fn = Sliders[i].action

\* The controls under point p whose action call c is, with the categories
\* they carry (None for a control without one).
CategoriesInvoked(c, p) ==
    {IF "category" \in DOMAIN Buttons[b] THEN Buttons[b].category ELSE None :
        b \in {k \in 1..Len(Buttons) :
                  IsButtonCall(c, k) /\ collidepoint(Buttons[k].rect, p)}}
      \cup
    {Sliders[i].category :
        i \in {k \in 1..Len(Sliders) :
                  IsSliderCall(c, k) /\ collidepoint(Sliders[k].rect, p)}}

\* The pointer event just handled read the pointer at p and then made call c.
PointerCall(p, c) ==
    /\ Len(calls) = 2
    /\ calls[1].fn = "get_pos" /\ calls[1].arg = p
    /\ calls[2].fn = c.fn /\ calls[2].arg = c.arg

ControlCalls ==
    {Buttons[b].action : b \in 1..Len(Buttons)}
       \cup {[fn |-> Sliders[i].action, arg |-> slider_value[i]] :
                i \in 1..Len(Sliders)}

\* C8 as claimed: a pointer event invokes a control's action only if the
\* control has no category or its category is the active mode.
C8_OnlyModeControls ==
    \A p \in ControlPoints, c \in ControlCalls :
       PointerCall(p, c) =>
          CategoriesInvoked(c, p) \cap {None, Lower(mode)} # {}

\* C8, amended: a pointer event invokes a control's action only if the control
\* has no category, its category is the active mode, or it is a button of
\* category "material" (material buttons act in every mode); and a slider's
\* only if its category is the active mode.
C8_ModeOrMaterialControls ==
    \A p \in ControlPoints, c \in ControlCalls :
       PointerCall(p, c) =>
          /\ CategoriesInvoked(c, p) \cap {None, Lower(mode), "material"} # {}
          /\ c.fn \in {Sliders[i].action : i \in 1..Len(Sliders)} =>
                Lower(mode) \in CategoriesInvoked(c, p)

\* In thermal mode a click where the mechanics, electricity, fluid and thermal
\* action buttons overlap has run the thermal button's action.
C8_Witness ==
    /\ mode = "THERMAL"
    /\ PointerCall(ButtonPoint(9), [fn |-> "add_heat_source", arg |-> None])
    /\ selected_button = 21
    /\ selected_material = "Metal"

\* ------------------------------------------------------------------ C9
\* Pointer-downs and motion, with the primary button down or up, at the left
\* end and the last pixel of the upper slider of every mode and inside the
\* lower slider of the mechanics and electricity modes.
UpperSliderPoints == {SliderPoint(1, 0), SliderPoint(1, SliderW - 1)}
LowerSliderPoints == {SliderPoint(2, 30)}

SliderMoves ==
    [keys |-> {"1", "2", "3", "4"},
     points |-> [m \in Modes |->
        IF m \in {"MECHANICS", "ELECTRICITY"}
        THEN UpperSliderPoints \cup LowerSliderPoints
        ELSE UpperSliderPoints],
     pressed |-> {Left, Released},
     offsets |-> {OffsetsMixed},
     cap |-> 0, emits |-> 0, heat |-> 0,
     trace |-> {"get_pos"} \cup {Sliders[i].action : i \in 1..Len(Sliders)}]

NextSliderMoves == Step(SliderMoves)

SpecSliderMoves == Init /\ [][NextSliderMoves]_vars

\* The pointer event just handled read the pointer at p and called slider i's setter.
SliderMoved(p, i) ==
    /\ Len(calls) = 2
    /\ calls[1].fn = "get_pos" /\ calls[1].arg = p
    /\ calls[2].fn = Sliders[i].action

\* v is min + (px - rect.x) / rect.w * (max - min) clamped to [min, max]
\* (the linear value compared after multiplying through by rect.w).
IsClampedLinear(v, slider, px) ==
    LET scaled == slider.min_value * slider.rect.w
                     + (px - slider.rect.x) * (slider.max_value - slider.min_value)
    IN  IF scaled < slider.min_value * slider.rect.w THEN v = slider.min_value
        ELSE IF scaled > slider.max_value * slider.rect.w THEN v = slider.max_value
        ELSE v * slider.rect.w = scaled

\* C9: every slider's value is within [min_value, max_value]; and when a
\* pointer-down or a motion with the primary button held has changed a slider,
\* that slider is one of the active mode under the pointer, its new value is
\* min + (pointer_x - rect.x) / rect.width * (max - min) clamped to [min, max],
\* and its setter was called with the value stored.
C9_SliderValueLinearClamped ==
    /\ \A i \in 1..Len(Sliders) :
          Sliders[i].min_value <= slider_value[i]
             /\ slider_value[i] <= Sliders[i].max_value
    /\ \A p \in UpperSliderPoints \cup LowerSliderPoints, i \in 1..Len(Sliders) :
          SliderMoved(p, i) =>
             /\ Sliders[i].category = Lower(mode)
             /\ collidepoint(Sliders[i].rect, p)
             /\ IsClampedLinear(slider_value[i], Sliders[i], p[1])
             /\ calls[2].arg = slider_value[i]

\* In thermal mode the temperature slider has been moved to its last pixel,
\* after the gravity slider had been moved in mechanics mode.
C9_Witness ==
    /\ mode = "THERMAL"
    /\ SliderMoved(SliderPoint(7, SliderW - 1), 7)
    /\ slider_value[7] > Sliders[7].init
    /\ slider_value[7] < Sliders[7].max_value
    /\ slider_value[1] = Sliders[1].min_value
    /\ space.gravity = 0

\* ----------------------------------------------------------------- C11
\* Work in electricity mode with the two sliders: the battery, resistor and
\* bulb buttons, and pointer-downs and held motion on the voltage and the
\* resistance slider.
SetValues ==
    [keys |-> {"2"},
     points |-> [m \in Modes |->
        IF m = "ELECTRICITY"
        THEN {ButtonPoint(13), ButtonPoint(14), ButtonPoint(15),
              SliderPoint(3, 75), SliderPoint(4, 30)}
        ELSE {}],
     pressed |-> {Left},
     offsets |-> {OffsetsMixed},
     cap |-> MaxEntities, emits |-> 0, heat |-> 0,
     trace |-> {"set_voltage", "set_resistance", "add_component"}]

NextSetValues == Step(SetValues)

SpecSetValues == Init /\ [][NextSetValues]_vars

\* The last event made the one call fn(...)
OneCall(fn) == Len(calls) = 1 /\ calls[1].fn = fn

\* After a call that bulk-sets the components of type type to v.
BulkSet(type, v) ==
    /\ Len(components') = Len(components)
    /\ \A k \in 1..Len(components) :
          components'[k].value =
             IF components[k].type = type THEN v ELSE components[k].value

\* C11: set_voltage(v) gives every battery the value v and leaves the value of
\* every other component as it was; set_resistance(v) does the same for the
\* resistors; a component added afterwards has its type's default value
\* (battery 9, resistor 100, bulb 50), not v.
C11_BulkSetByType ==
    [][/\ OneCall("set_voltage")' => BulkSet("BATTERY", calls'[1].arg)
       /\ OneCall("set_resistance")' => BulkSet("RESISTOR", calls'[1].arg)
       /\ OneCall("add_component")' =>
             /\ Len(components') = Len(components) + 1
             /\ IsPrefix(components, components')
             /\ components'[Len(components')].value =
                   CASE calls'[1].arg = "BATTERY" -> Whole(9)
                     [] calls'[1].arg = "RESISTOR" -> Whole(100)
                     [] calls'[1].arg = "BULB" -> Whole(50)]_vars

\* A battery has been added after the voltage slider set the first battery
\* to another value than the default.
C11_Witness ==
    /\ OneCall("add_component") /\ calls[1].arg = "BATTERY"
    /\ Len(components) = 2
    /\ components[1].type = "BATTERY"
    /\ components[1].value = slider_value[3]
    /\ components[1].value # Whole(9)
    /\ components[2].value = Whole(9)

\* ----------------------------------------------------------------- C12
\* Work in thermal mode: reset, the heat source, metal rod and insulator
\* buttons, and clicks at the centre of a source (inside a rod too), on the
\* source's rim, inside a rod only and far from everything.
OnRim == << Center[1] + HeatRadius, Center[2] >>
RodOnly == << Center[1] - 90, Center[2] - 5 >>
ThermalClicks == {Center, OnRim, RodOnly, Far}

Thermal ==
    [keys |-> {"4", "r"},
     points |-> [m \in Modes |->
        IF m = "THERMAL"
        THEN {ButtonPoint(21), ButtonPoint(22), ButtonPoint(23)} \cup ThermalClicks
        ELSE {}],
     pressed |-> {Left},
     offsets |-> {OffsetsMixed},
     cap |-> MaxEntities, emits |-> 0, heat |-> MaxHeatClicks,
     trace |-> {"handle_thermal_click"}]

NextThermal == Step(Thermal)

SpecThermal == Init /\ [][NextThermal]_vars

\* Squared distance from p to the centre of point source e.
DistSq(e, p) ==
    (p[1] - e.position[1]) * (p[1] - e.position[1])
       + (p[2] - e.position[2]) * (p[2] - e.position[2])

\* p is within the footprint of heat entity e, the rim of a point source and
\* the four edges of a rect counted in.
WithinFootprint(e, p) ==
    IF "radius" \in DOMAIN e
    THEN DistSq(e, p) <= e.radius * e.radius
    ELSE /\ e.rect.x <= p[1] /\ p[1] <= e.rect.x + e.rect.w
         /\ e.rect.y <= p[2] /\ p[2] <= e.rect.y + e.rect.h

\* p is strictly inside the circle of point source e, or on a pixel of rect e
\* (left and top edges in, right and bottom edges out).
StrictlyWithinFootprint(e, p) ==
    IF "radius" \in DOMAIN e
    THEN DistSq(e, p) < e.radius * e.radius
    ELSE /\ e.rect.x <= p[1] /\ p[1] < e.rect.x + e.rect.w
         /\ e.rect.y <= p[2] /\ p[2] < e.rect.y + e.rect.h

\* A thermal click at p raised by 10 exactly the entities Contains picks out.
HeatsExactly(p, Contains(_, _)) ==
    /\ Len(heat_sources') = Len(heat_sources)
    /\ \A k \in 1..Len(heat_sources) :
          heat_sources'[k].temperature =
             heat_sources[k].temperature
                + (IF Contains(heat_sources[k], p) THEN Whole(10) ELSE 0)

\* C12 as claimed: a thermal click at p raises by exactly 10 the temperature
\* of every heat entity p is within (within the radius, within the rect
\* bounds) and leaves the other temperatures and the list's size unchanged.
C12_ClickHeatsWithin ==
    [][\A p \in ThermalClicks :
          ClickedAt("handle_thermal_click", p)' =>
             HeatsExactly(p, WithinFootprint)]_vars

\* C12, amended: the same, a point source containing p when the distance is
\* strictly less than its radius (a click on the rim heats nothing) and a
\* rect when p is on one of its pixels.
C12_ClickHeatsStrictlyWithin ==
    [][\A p \in ThermalClicks :
          ClickedAt("handle_thermal_click", p)' =>
             HeatsExactly(p, StrictlyWithinFootprint)]_vars

\* A click on the rim of a point source, inside a rod, has heated the rod
\* and not the source.
C12_Witness ==
    /\ ClickedAt("handle_thermal_click", OnRim)
    /\ Len(heat_sources) = 2
    /\ "radius" \in DOMAIN heat_sources[1]
    /\ heat_sources[1].temperature = Whole(200)
    /\ "rect" \in DOMAIN heat_sources[2]
    /\ heat_sources[2].temperature = Whole(30)

\* ----------------------------------------------------------------- C13
\* The state of mode m's domain: its entity lists and the selections and
\* drag flags that refer to its entities.
DomainState(m) ==
    CASE m = "MECHANICS" ->
           [lists |-> << objects >>,
            refs |-> << selected_object, pendulum, spring >>,
            flags |-> << applying_force >>]
      [] m = "ELECTRICITY" ->
           [lists |-> << components, wires >>,
            refs |-> << selected_component >>,
            flags |-> << dragging_component, circuit_solved >>]
      [] m = "FLUID" ->
           [lists |-> << particles, obstacles >>, refs |-> << >>, flags |-> << >>]
      [] m = "THERMAL" ->
           [lists |-> << heat_sources, temperature_map >>,
            refs |-> << >>, flags |-> << >>]

\* The same at program start.
DomainStart(m) ==
    CASE m = "MECHANICS" ->
           [lists |-> << << >> >>,
            refs |-> << NoRef, NoRef, NoRef >>,
            flags |-> << FALSE >>]
      [] m = "ELECTRICITY" ->
           [lists |-> << << >>, << >> >>,
            refs |-> << NoRef >>,
            flags |-> << FALSE, FALSE >>]
      [] m = "FLUID" ->
           [lists |-> << << >>, << >> >>, refs |-> << >>, flags |-> << >>]
      [] m = "THERMAL" ->
           [lists |-> << << >>, AmbientMap >>, refs |-> << >>, flags |-> << >>]

\* C13: a key event that resets the active mode (R: set_mode(self.mode))
\* leaves the mode as it is and the state of its domain (entity lists,
\* selections and drag flags referring to its entities) as at program start.
C13_ResetRestoresDomain ==
    [][(calls' = SetModeCall(mode) /\ selected_button' = selected_button) =>
          /\ mode' = mode
          /\ DomainState(mode)' = DomainStart(mode)]_vars

\* ----------------------------------------------------------------- C14
\* The events pygame.event.get() returns, with what the handler reads while
\* handling each: the pointer position, the buttons held, the random offsets.
Event(type, key, mouse_pos, pressed) ==
    [type |-> type, key |-> key, mouse_pos |-> mouse_pos, pressed |-> pressed,
     offsets |-> OffsetsMixed]

QuitEvent == Event("QUIT", None, << >>, Released)
KeyEvent(key) == Event("KEYDOWN", key, << >>, Released)
DownEvent(mouse_pos) == Event("MOUSEBUTTONDOWN", None, mouse_pos, Left)
UpEvent == Event("MOUSEBUTTONUP", None, << >>, Released)
MotionEvent(mouse_pos) == Event("MOUSEMOTION", None, mouse_pos, Left)

\* The body of the loop of handle_events for one event.
handle_event(s, event) ==
    CASE event.type = "QUIT" -> handle_events_quit(s)
      [] event.type = "KEYDOWN" -> handle_events_keydown(s, event.key)
      [] event.type = "MOUSEBUTTONDOWN" ->
           handle_events_mousebuttondown(s, event.mouse_pos, event.pressed,
                                         event.offsets)
      [] event.type = "MOUSEBUTTONUP" -> handle_events_mousebuttonup(s)
      [] event.type = "MOUSEMOTION" ->
           handle_events_mousemotion(s, event.mouse_pos, event.pressed)

\* Handling event in state s runs one of the `return` statements of the loop:
\* after a button's action, after a slider's setter (pointer-down or motion).
Returns(s, event) ==
    CASE event.type = "MOUSEBUTTONDOWN" ->
           ButtonAt(s, event.mouse_pos) # 0 \/ SliderAt(s, event.mouse_pos) # 0
      [] event.type = "MOUSEMOTION" ->
           get_pressed(event.pressed, 0) /\ SliderAt(s, event.mouse_pos) # 0
      [] OTHER -> FALSE

RECURSIVE handle_events(_, _)
\* handle_events, events being what pygame.event.get() returned (the queue is
\* empty from then on): the loop ends at the first return, exit or exception.
handle_events(s, events) ==
    IF events = << >> THEN s
    ELSE LET t == handle_event(s, Head(events)) IN
         IF t.status # "running" \/ Returns(s, Head(events))
         THEN t
         ELSE handle_events(t, Tail(events))

\* One tick's call of handle_events on the batch events.
Tick(events, src) ==
    Handled([handle_events(St, events) EXCEPT
                !.calls = << [fn |-> "handle_events", arg |-> events] >>], src)

\* Batches of up to MaxBatch events: the electricity key, pointer-downs on the
\* first action button, the first slider, a component and the canvas,
\* pointer-up, held motion, quit.
BatchEvents ==
    {KeyEvent("2"), DownEvent(ButtonPoint(13)), DownEvent(SliderPoint(1, 75)),
     DownEvent(Center), UpEvent, MotionEvent(SwitchCorner), QuitEvent}

RECURSIVE BatchesOf(_)
BatchesOf(n) ==
    IF n = 0 THEN {<< >>}
    ELSE LET shorter == BatchesOf(n - 1) IN
         shorter \cup {Append(b, e) : b \in {c \in shorter : Len(c) = n - 1},
                                     e \in BatchEvents}

Batches == BatchesOf(MaxBatch) \ {<< >>}

BatchSource ==
    [keys |-> {}, points |-> [m \in Modes |-> {}], pressed |-> {},
     offsets |-> {},
     cap |-> MaxEntities, emits |-> 0, heat |-> 0,
     trace |-> {"handle_events"}]

NextBatches == \E events \in Batches : Tick(events, BatchSource)

SpecBatches == Init /\ [][NextBatches]_vars

RECURSIVE DispatchAll(_, _)
\* Every event of the batch handled in turn, up to an exit or an exception.
DispatchAll(s, events) ==
    IF events = << >> \/ s.status # "running" THEN s
    ELSE DispatchAll(handle_event(s, Head(events)), Tail(events))

\* C14: a tick dispatches every event of its batch: the state after
\* handle_events is the state after each event's handler has taken effect,
\* in order (a pointer-up that follows a button or slider click in the batch
\* still clears the selection and drag state).
C14_EveryEventDispatched ==
    [][\A b \in Batches :
          (calls'[1].arg = b) =>
             [St' EXCEPT !.calls = << >>]
                = [DispatchAll(St, b) EXCEPT !.calls = << >>]]_vars

\* ----------------------------------------------------------------- C15
\* C15: a mechanics-mode click while the object list is empty raises no
\* error, leaves selected_object None and changes no body (the list stays
\* empty).
C15_EmptyPickIsNoMatch ==
    [][\A p \in MechanicsClicks :
          (ClickedAt("handle_mechanics_click", p)' /\ objects = << >>) =>
             /\ status' = "running" /\ error' = None
             /\ selected_object = NoRef /\ selected_object' = NoRef
             /\ objects' = << >>]_vars

\* A right-button click on the empty canvas has been handled: the program
\* runs on, nothing is selected, a force gesture has started.
C15_Witness ==
    /\ ClickedAt("handle_mechanics_click", SpawnPoint)
    /\ objects = << >> /\ selected_object = NoRef
    /\ status = "running"
    /\ applying_force /\ force_start_pos = SpawnPoint

\* ----------------------------------------------------------------- C16
\* Calls of point_in_polygon on any vertex list of up to three grid points,
\* convex or not, repeated vertices and horizontal edges included.
VertexLists ==
    {<< >>} \cup {<< a >> : a \in GridPoints}
       \cup (GridPoints \X GridPoints)
       \cup (GridPoints \X GridPoints \X GridPoints)

PointInAnyPolygon ==
    /\ pip.phase = "idle"
    /\ \E point \in TestPoints, vertices \in VertexLists :
          CallPointInPolygon(point, vertices)

NextAnyPolygon == PointInAnyPolygon \/ PointInShape

SpecAnyPolygon == Init /\ [][NextAnyPolygon]_vars

\* C16: point_in_polygon on a vertex list of length 0 or 1 returns False for
\* every point and raises no error.
C16_DegenerateIsOutside ==
    (pip.phase = "returned" /\ pip.fn = "point_in_polygon"
        /\ Len(pip.vertices) \in {0, 1}) =>
       /\ pip.raised = None
       /\ pip.inside = FALSE

\* point_in_polygon has returned for the empty list, and for a one-vertex
\* list with the point on the vertex.
C16_Witness ==
    /\ pip.phase = "returned" /\ pip.fn = "point_in_polygon"
    /\ pip.vertices = << pip.point >>
    /\ pip.raised = None /\ ~pip.inside

\* ----------------------------------------------------------------- C18
\* The vertex list has a horizontal edge at the height of the point, the
\* point being on it or to its left.
HorizontalEdgeAtPoint(point, vertices) ==
    \E i \in 1..Len(vertices) :
        LET a == vertices[i]
            b == vertices[(i % Len(vertices)) + 1]
        IN  a # b /\ a[2] = b[2] /\ a[2] = point[2]
               /\ point[1] <= Max(a[1], b[1])

\* C18: for every vertex list and point, point_in_polygon never lets a
\* horizontal edge toggle the inside flag, never divides by zero, and never
\* compares against an xinters left over from another edge or not assigned.
C18_HorizontalEdgesInert ==
    (pip.phase = "returned" /\ pip.fn = "point_in_polygon") =>
       /\ ~pip.horizontal_toggle
       /\ pip.raised = None
       /\ ~pip.stale

\* point_in_polygon has returned for a triangle with a horizontal edge at
\* the height of the point, the point on that edge.
C18_Witness ==
    /\ pip.phase = "returned" /\ pip.fn = "point_in_polygon"
    /\ Len(pip.vertices) = 3
    /\ Cross(pip.vertices[1], pip.vertices[2], pip.vertices[3]) # 0
    /\ HorizontalEdgeAtPoint(pip.point, pip.vertices)
    /\ OnOutline(pip.point, pip.vertices)
    /\ pip.raised = None

\* ----------------------------------------------------------------- C17
\* handle_mechanics_motion applied to the states it is written for: a
\* mechanics scene of up to MaxEntities objects with one of them, or none,
\* held in selected_object.  (Through handle_events no state with an object
\* selected arises, handle_mechanics_click raising before it selects.)
Scenes ==
    LET one == add_circle(InitState)
        two == add_box(one)
    IN  {Begin(InitState), Begin(one)}
           \cup (IF MaxEntities >= 2 THEN {Begin(two)} ELSE {})

DragStarts ==
    UNION {{[scene EXCEPT !.selected_object = sel] :
               sel \in {NoRef} \cup {scene.objects[i].id :
                                        i \in 1..Len(scene.objects)}} :
           scene \in Scenes}

InitDrag ==
    /\ pip = IdlePip
    /\ \E t \in DragStarts : Is(t)

DragPoints == {Center, Far, OnBoundary}

Drag ==
    [keys |-> {"r"},
     points |-> [m \in Modes |-> IF m = "MECHANICS" THEN DragPoints ELSE {}],
     pressed |-> {Left, Right, Released},
     offsets |-> {OffsetsMixed},
     cap |-> MaxEntities, emits |-> 0, heat |-> 0,
     trace |-> {"handle_mechanics_motion", "get_pressed"}]

NextDrag == Step(Drag)

SpecDrag == InitDrag /\ [][NextDrag]_vars

\* The last event was a mechanics-mode motion with the pointer at p.
MovedTo(p) ==
    Len(calls) >= 1 /\ calls[1].fn = "handle_mechanics_motion" /\ calls[1].arg = p

\* ... during which the primary button was read as held.
PrimaryHeld == Len(calls) = 2 /\ calls[2].arg = Left

\* C17: a mechanics-mode motion to p while an object is selected and the
\* primary button is held puts that object at p with velocity (0, 0) and
\* leaves every other tracked object's position and velocity alone; with no
\* object selected, or the button not held, it changes no body.
C17_DragMovesSelectedOnly ==
    [][\A p \in DragPoints :
          MovedTo(p)' =>
             /\ Len(objects') = Len(objects)
             /\ \A k \in 1..Len(objects) :
                   IF objects[k].id = selected_object /\ PrimaryHeld'
                   THEN /\ objects'[k].position = p
                        /\ objects'[k].velocity = << 0, 0 >>
                   ELSE /\ objects'[k].position = objects[k].position
                        /\ objects'[k].velocity = objects[k].velocity]_vars

\* The selected box of a two-object scene has been dragged away; the circle
\* is where it was.
C17_Witness ==
    /\ MovedTo(Far) /\ PrimaryHeld
    /\ Len(objects) = 2 /\ selected_object = objects[2].id
    /\ objects[2].position = Far
    /\ objects[1].position = SpawnPoint

\* ----------------------------------------------------------------- C19
\* Indices of the tracked objects whose shape contains p, by the hit test
\* the click handler names.
Containing(p) ==
    {k \in 1..Len(objects) : point_in_shape(p, objects[k], objects[k].shape)}

\* C19: a mechanics-mode click at p selects the earliest-added tracked object
\* among those that contain p, and leaves selected_object as it was when no
\* tracked object contains p.
C19_EarliestMatchPicked ==
    [][\A p \in MechanicsClicks :
          ClickedAt("handle_mechanics_click", p)' =>
             IF Containing(p) = {}
             THEN selected_object' = selected_object
             ELSE \E k \in Containing(p) :
                     /\ \A j \in Containing(p) : k <= j
                     /\ selected_object' = objects[k].id]_vars

\* ----------------------------------------------------------------- C20
\* Mechanics sessions that add bodies of two materials and move the friction
\* slider to two values, none of them a material's friction or the walls'.
FrictionValues ==
    [keys |-> {"1"},
     points |-> [m \in Modes |->
        IF m = "MECHANICS"
        THEN {ButtonPoint(7), ButtonPoint(9), ButtonPoint(10),
              SliderPoint(2, 30), SliderPoint(2, 120)}
        ELSE {}],
     pressed |-> {Left},
     offsets |-> {OffsetsMixed},
     cap |-> MaxEntities, emits |-> 0, heat |-> 0,
     trace |-> {"set_friction", "add_circle", "add_box"}]

NextFrictionValues == Step(FrictionValues)

SpecFrictionValues == Init /\ [][NextFrictionValues]_vars

\* C20: set_friction(v) gives every tracked object's shape the friction v and
\* leaves the boundary walls at friction 0.5; a body added afterwards has the
\* friction of the selected material, and the bodies before it keep theirs.
C20_FrictionOfTrackedShapes ==
    [][/\ OneCall("set_friction")' =>
             /\ Len(objects') = Len(objects)
             /\ \A k \in 1..Len(objects') :
                   objects'[k].friction = calls'[1].arg
             /\ space'.wall_friction = Tenths(5)
       /\ (OneCall("add_circle")' \/ OneCall("add_box")') =>
             /\ Len(objects') = Len(objects) + 1
             /\ IsPrefix(objects, objects')
             /\ objects'[Len(objects')].friction =
                   MATERIALS[selected_material].friction
             /\ space'.wall_friction = Tenths(5)]_vars

\* An ice box has been added after the friction slider set the first body's
\* friction to 0.8: the box has the friction of ice, the first body keeps 0.8.
C20_Witness ==
    /\ OneCall("add_box")
    /\ Len(objects) = 2
    /\ objects[1].friction = Tenths(8)
    /\ slider_value[2] = Tenths(8)
    /\ objects[2].material = "Ice"
    /\ objects[2].friction = Tenths(1)
    /\ space.wall_friction = Tenths(5)

ComponentDrags ==
    [keys |-> {"1", "2", "r"},
     points |-> [m \in Modes |->
        IF m = "ELECTRICITY"
        THEN {ButtonPoint(13), ButtonPoint(14), Center, SwitchCorner}
        ELSE {}],
     pressed |-> {Left},
     offsets |-> {OffsetsMixed},
     cap |-> MaxEntities, emits |-> 0, heat |-> 0,
     trace |-> {"add_component", "handle_electricity_click",
                "handle_electricity_motion"}]

NextComponentDrags == Step(ComponentDrags)

SpecComponentDrags == Init /\ [][NextComponentDrags]_vars

\* C22: an electricity-mode pointer motion moves a component only if a
\* pointer-down inside its rectangle selected it and no pointer-up came
\* since; in particular a motion that directly follows the adding of a
\* component, which no pointer-down has selected yet, leaves that component
\* where it was added.
C22_AddedStaysUntilClicked ==
    [][(/\ OneCall("add_component")
        /\ Len(calls') = 1
        /\ calls'[1].fn = "handle_electricity_motion") =>
          /\ Len(components') = Len(components)
          /\ components'[Len(components')].position =
                components[Len(components)].position]_vars

\* ----------------------------------------------------------------- C23
ClickHandlers ==
    {"handle_mechanics_click", "handle_electricity_click",
     "handle_fluid_click", "handle_thermal_click"}

PointerDownPoints ==
    {ButtonPoint(1), ButtonPoint(3), ButtonPoint(6), ButtonPoint(9),
     ButtonPoint(19), SliderPoint(1, 75), SliderPoint(5, 75), Center}

\* Mechanics and fluid sessions of pointer events on mode, material and
\* action buttons, on sliders and on the scene.
PointerDowns ==
    [keys |-> {"1", "3"},
     points |-> [m \in Modes |->
        CASE m = "MECHANICS" ->
               {ButtonPoint(3), ButtonPoint(6), ButtonPoint(9),
                SliderPoint(1, 75), Center}
          [] m = "FLUID" ->
               {ButtonPoint(1), ButtonPoint(6), ButtonPoint(19),
                SliderPoint(5, 75), Center}
          [] OTHER -> {}],
     pressed |-> {Left},
     offsets |-> {OffsetsMixed},
     cap |-> MaxEntities, emits |-> 1, heat |-> 0,
     trace |-> {"get_pos"}
                 \cup {Buttons[b].action.fn : b \in 1..Len(Buttons)}
                 \cup {Sliders[i].action : i \in 1..Len(Sliders)}
                 \cup ClickHandlers]

NextPointerDowns == Step(PointerDowns)

SpecPointerDowns == Init /\ [][NextPointerDowns]_vars

\* The last event read the pointer at p and went on to call something.
ActedAt(p) ==
    Len(calls) >= 2 /\ calls[1].fn = "get_pos" /\ calls[1].arg = p

\* C23: a pointer-down at p makes one call only: the action of the first
\* active button, in list order, that contains p; with no such button, the
\* setter of the active slider that contains p; with neither, the active
\* mode's click handler.
C23_OneControlPerPointerDown ==
    [][\A p \in PointerDownPoints :
          ActedAt(p)' =>
             LET b == ButtonAt(St, p)
                 i == SliderAt(St, p)
             IN  /\ Len(calls') = 2
                 /\ IF b # 0
                    THEN /\ calls'[2].fn = Buttons[b].action.fn
                         /\ calls'[2].arg = Buttons[b].action.arg
                         /\ selected_button' = b
                    ELSE IF i # 0
                    THEN /\ calls'[2].fn = Sliders[i].action
                         /\ calls'[2].arg = slider_value'[i]
                    ELSE /\ calls'[2].fn \in ClickHandlers
                         /\ calls'[2].arg = p]_vars

\* In fluid mode a press on the Add Obstacle button has added the obstacle
\* and emitted no particle.
C23_Witness ==
    /\ ActedAt(ButtonPoint(19)) /\ calls[2].fn = "add_obstacle"
    /\ mode = "FLUID" /\ Len(obstacles) = 1 /\ particles = << >>
    /\ status = "running"

====
